---- MODULE Spec2Model ----
(***************************************************************************)
(* Persistent hash array mapped trie of internal/hamt, with the            *)
(* collections.Set style driver that publishes new roots.                  *)
(*                                                                         *)
(* A uint64 (a hash, a Bitmap, a position mask) is the set of its set bit  *)
(* positions, a subset of 0..63: OR is union, AND is intersection, AND NOT *)
(* is set difference, a shift moves the positions and drops those that     *)
(* leave the word, OnesCount64 is the cardinality.                         *)
(*                                                                         *)
(* Nodes live in a heap (a sequence of node records); a node reference is  *)
(* its index in the heap and 0 is the nil interface value.  Reference      *)
(* equality in the Go code is equality of indices.                         *)
(***************************************************************************)
EXTENDS Integers, Sequences, FiniteSets, TLC

\* ---------------------------------------------------------------- bitmap.go

WordBits == 64
shiftWidth == 6
maxOffset == 10

Bit == 0 .. (WordBits - 1)

\* ^uint64(0)
AllOnes == Bit

\* x >> k on a 64-bit word
Shr(x, k) == {b - k : b \in {c \in x : c >= k}}

\* the word whose value is the small natural number n
FromNat(n) == {b \in 0 .. 30 : (n \div (2 ^ b)) % 2 = 1}

\* the value of a word that fits in 31 bits
RECURSIVE ToNat(_)
ToNat(x) ==
    IF x = {} THEN 0
    ELSE LET b == CHOOSE c \in x : TRUE
         IN  (2 ^ b) + ToNat(x \ {b})

Initialize == {}

bandMask == FromNat((2 ^ shiftWidth) - 1)

\* the guard of Position with the upper limit one level too far
PositionPanics_Loose(offset) == offset < 0 \/ offset > maxOffset + 1

\* the guard of Position: the panic on an offset outside [0, maxOffset]
PositionPanics(offset) == offset < 0 \/ offset > maxOffset

Position(hash, offset) ==
    LET shift   == offset * shiftWidth
        shifted == Shr(hash, shift)
        masked  == shifted \cap bandMask
    IN  {ToNat(masked)}

BitmapNext_Keep(bitmap, position) == bitmap

BitmapNext(bitmap, position) == bitmap \cup position

Without_Keep(bitmap, position) == bitmap

Without(bitmap, position) == bitmap \ position

Has(bitmap, position) == (bitmap \cap position) # {}

\* x |= x >> k
Smear(x, k) == x \cup Shr(x, k)

\* msbMask without the final shift: the mask keeps the bit of value itself
msbMask_NoShift(value) ==
    IF value = {} THEN AllOnes
    ELSE Smear(Smear(Smear(Smear(Smear(Smear(value, 1), 2), 4), 8), 16), 32)

msbMask(value) ==
    IF value = {} THEN AllOnes
    ELSE Shr(Smear(Smear(Smear(Smear(Smear(Smear(value, 1), 2), 4), 8), 16), 32), 1)

Index(bitmap, position) ==
    LET Count(m) ==
            IF m = AllOnes
            THEN [count |-> 0, ok |-> FALSE]
            ELSE [count |-> Cardinality(bitmap \cap m), ok |-> TRUE]
    IN  Count(msbMask(position))

\* ------------------------------------------------------------------- nodes

Nil == 0

\* zero values of K and V (*new(K), *new(V))
ZeroKey == ""
ZeroValue == 0

Entry(key, value) == [Key |-> key, Value |-> value]

LeafNode(hash, key, value) ==
    [kind |-> "leaf", hash |-> hash, key |-> key, value |-> value,
     bitmap |-> {}, children |-> <<>>, entries |-> <<>>]

CollisionNode(hash, entries) ==
    [kind |-> "collision", hash |-> hash, key |-> ZeroKey, value |-> ZeroValue,
     bitmap |-> {}, children |-> <<>>, entries |-> entries]

BitmapIndexedNode(bitmap, children) ==
    [kind |-> "branch", hash |-> {}, key |-> ZeroKey, value |-> ZeroValue,
     bitmap |-> bitmap, children |-> children, entries |-> <<>>]

\* allocation of a node: the new heap and the reference to the new node
Alloc(h, node) == [heap |-> Append(h, node), id |-> Len(h) + 1, panic |-> FALSE]

NewLeafNode(h, hash, key, value) == Alloc(h, LeafNode(hash, key, value))

NewCollisionNode(h, hash, entries) == Alloc(h, CollisionNode(hash, entries))

NewBitmapIndexedNode(h, bitmap, children) ==
    Alloc(h, BitmapIndexedNode(bitmap, children))

\* results of Get: (value, found), or the panic of Position
Found(value) == [value |-> value, found |-> TRUE, panic |-> FALSE]
NotFound == [value |-> ZeroValue, found |-> FALSE, panic |-> FALSE]
GetPanic == [value |-> ZeroValue, found |-> FALSE, panic |-> TRUE]

\* results of Set and Remove that unwind with the panic of Position
SetPanic(h) == [heap |-> h, id |-> Nil, panic |-> TRUE]
RemovePanic(h) == [heap |-> h, id |-> Nil, removed |-> FALSE, panic |-> TRUE]
Removed(h, id, removed) ==
    [heap |-> h, id |-> id, removed |-> removed, panic |-> FALSE]

\* ------------------------------------------- bitmap_indexed_node.go helpers

replaceNode(children, index, node) ==
    [i \in 1 .. Len(children) |-> IF i = index + 1 THEN node ELSE children[i]]

\* insertNode that appends the node instead of splicing it at index
insertNode_Append(children, index, node) == Append(children, node)

insertNode(children, index, node) ==
    SubSeq(children, 1, index) \o <<node>>
        \o SubSeq(children, index + 1, Len(children))

\* removeNode that always drops the first slot
removeNode_First(children, index) == SubSeq(children, 2, Len(children))

removeNode(children, index) ==
    SubSeq(children, 1, index) \o SubSeq(children, index + 2, Len(children))

\* --------------------------------------------------------------------- Get

\* LeafNode.Get without the hash comparison
LeafNodeGet_AnyHash(leaf, hash) == Found(leaf.value)

LeafNodeGet(leaf, hash) ==
    IF leaf.hash = hash THEN Found(leaf.value) ELSE NotFound

CollisionNodeGet_Last(node, hash) ==
    IF node.hash # hash THEN NotFound
    ELSE IF Len(node.entries) > 0
    THEN Found(node.entries[Len(node.entries)].Value)
    ELSE NotFound

CollisionNodeGet(node, hash) ==
    IF node.hash # hash THEN NotFound
    ELSE IF Len(node.entries) > 0 THEN Found(node.entries[1].Value)
    ELSE NotFound

RECURSIVE NodeGet(_, _, _, _)
BitmapIndexedNodeGet(h, node, hash, offset) ==
    CASE PositionPanics(offset) -> GetPanic
      [] ~PositionPanics(offset) /\ ~Has(node.bitmap, Position(hash, offset)) ->
             NotFound
      [] OTHER ->
             NodeGet(h,
                     node.children[
                         Index(node.bitmap, Position(hash, offset)).count + 1],
                     hash, offset + 1)

\* dispatch of Node.Get on the dynamic type of the receiver
NodeGet(h, id, hash, offset) ==
    CASE h[id].kind = "leaf" -> LeafNodeGet(h[id], hash)
      [] h[id].kind = "collision" -> CollisionNodeGet(h[id], hash)
      [] h[id].kind = "branch" -> BitmapIndexedNodeGet(h, h[id], hash, offset)

\* --------------------------------------------------------------------- Set

RECURSIVE NodeSet(_, _, _, _, _, _)
RECURSIVE LeafNodeSet(_, _, _, _, _, _)
RECURSIVE BitmapIndexedNodeSet(_, _, _, _, _, _)

\* the child of branch id that occupies position
Target(h, id, position) ==
    h[id].children[Index(h[id].bitmap, position).count + 1]

\* the return of BitmapIndexedNode.Set once the occupying child has returned
\* next: the receiver when next is the child itself, else a copy of the
\* branch with next in the child's slot
SetReplaced(h, id, position, next) ==
    IF next.panic THEN next
    ELSE IF next.id = Target(h, id, position)
    THEN [heap |-> next.heap, id |-> id, panic |-> FALSE]
    ELSE NewBitmapIndexedNode(next.heap, h[id].bitmap,
             replaceNode(h[id].children,
                         Index(h[id].bitmap, position).count, next.id))

\* the return of BitmapIndexedNode.Set for an empty slot: a copy of the
\* branch with the new leaf spliced in and its bit set
SetInserted(h, id, position, leaf) ==
    NewBitmapIndexedNode(leaf.heap, BitmapNext(h[id].bitmap, position),
        insertNode(h[id].children, Index(h[id].bitmap, position).count,
                   leaf.id))

BitmapIndexedNodeSet(h, id, key, value, hash, offset) ==
    CASE PositionPanics(offset) -> SetPanic(h)
      [] ~PositionPanics(offset) /\ Has(h[id].bitmap, Position(hash, offset)) ->
             SetReplaced(h, id, Position(hash, offset),
                 NodeSet(h, Target(h, id, Position(hash, offset)),
                         key, value, hash, offset))
      [] OTHER ->
             SetInserted(h, id, Position(hash, offset),
                 NewLeafNode(h, hash, key, value))

\* the return of LeafNode.Set when the positions collide: the node built one
\* level deeper as the only child of a new branch
SetWrapped(position, nextNode) ==
    IF nextNode.panic THEN nextNode
    ELSE NewBitmapIndexedNode(nextNode.heap,
             BitmapNext(Initialize, position), <<nextNode.id>>)

\* the return of LeafNode.Set when the positions differ: Set on the new
\* branch that holds the leaf
SetBeside(bitmapNode, key, value, hash, offset) ==
    BitmapIndexedNodeSet(bitmapNode.heap, bitmapNode.id, key, value, hash,
                         offset)

LeafNodeSet(h, leaf, key, value, hash, offset) ==
    CASE h[leaf].hash = hash -> NewLeafNode(h, hash, key, value)
      [] h[leaf].hash # hash /\ PositionPanics(offset) -> SetPanic(h)
      [] /\ h[leaf].hash # hash
         /\ ~PositionPanics(offset)
         /\ Position(h[leaf].hash, offset) = Position(hash, offset) ->
             SetWrapped(Position(h[leaf].hash, offset),
                 LeafNodeSet(h, leaf, key, value, hash, offset + 1))
      [] OTHER ->
             SetBeside(NewBitmapIndexedNode(h,
                           BitmapNext(Initialize,
                                      Position(h[leaf].hash, offset)),
                           <<leaf>>),
                       key, value, hash, offset)

\* CollisionNode.Set that appends to the receiver's entry list in place
CollisionNodeSet_InPlace(h, id, key, value, hash, offset) ==
    IF h[id].hash = hash
    THEN [heap |-> [h EXCEPT ![id].entries = Append(@, Entry(key, value))],
          id |-> id, panic |-> FALSE]
    ELSE NewLeafNode(h, hash, key, value)

\* CollisionNode.Set that puts the new entry in front of the copied entries
CollisionNodeSet_Prepend(h, id, key, value, hash, offset) ==
    IF h[id].hash = hash
    THEN NewCollisionNode(h, hash, <<Entry(key, value)>> \o h[id].entries)
    ELSE NewLeafNode(h, hash, key, value)

\* CollisionNode.Set that gives the leaf of another hash the node's own hash
CollisionNodeSet_OwnHash(h, id, key, value, hash, offset) ==
    IF h[id].hash = hash
    THEN NewCollisionNode(h, hash, Append(h[id].entries, Entry(key, value)))
    ELSE NewLeafNode(h, h[id].hash, key, value)

CollisionNodeSet(h, id, key, value, hash, offset) ==
    LET node == h[id]
    IN  IF node.hash = hash
        THEN NewCollisionNode(h, hash, Append(node.entries, Entry(key, value)))
        ELSE NewLeafNode(h, hash, key, value)

NodeSet(h, id, key, value, hash, offset) ==
    CASE h[id].kind = "leaf" -> LeafNodeSet(h, id, key, value, hash, offset)
      [] h[id].kind = "collision" ->
             CollisionNodeSet(h, id, key, value, hash, offset)
      [] h[id].kind = "branch" ->
             BitmapIndexedNodeSet(h, id, key, value, hash, offset)

\* ------------------------------------------------------------------ Remove

\* LeafNode.Remove without the hash comparison
LeafNodeRemove_AnyHash(h, leaf, hash) == Removed(h, Nil, TRUE)

\* LeafNode.Remove that reports true and hands the leaf back
LeafNodeRemove_KeepsLeaf(h, leaf, hash) ==
    IF h[leaf].hash = hash THEN Removed(h, leaf, TRUE)
    ELSE Removed(h, leaf, FALSE)

LeafNodeRemove(h, leaf, hash) ==
    IF h[leaf].hash = hash THEN Removed(h, Nil, TRUE)
    ELSE Removed(h, leaf, FALSE)

\* CollisionNode.Remove that drops the last entry instead of the first
CollisionNodeRemove_Last(h, id, hash) ==
    LET node == h[id]
    IN  IF node.hash # hash THEN Removed(h, id, FALSE)
        ELSE IF Len(node.entries) = 1 THEN Removed(h, Nil, TRUE)
        ELSE IF Len(node.entries) = 2
        THEN LET remaining == node.entries[1]
                 Made(leaf) == Removed(leaf.heap, leaf.id, TRUE)
             IN  Made(NewLeafNode(h, node.hash, remaining.Key, remaining.Value))
        ELSE IF Len(node.entries) = 0
        THEN RemovePanic(h)
        ELSE LET Made(coll) == Removed(coll.heap, coll.id, TRUE)
             IN  Made(NewCollisionNode(h, node.hash,
                          SubSeq(node.entries, 1, Len(node.entries) - 1)))

CollisionNodeRemove(h, id, hash) ==
    LET node == h[id]
    IN  IF node.hash # hash THEN Removed(h, id, FALSE)
        ELSE IF Len(node.entries) = 1 THEN Removed(h, Nil, TRUE)
        ELSE IF Len(node.entries) = 2
        THEN LET remaining == node.entries[2]
                 Made(leaf) == Removed(leaf.heap, leaf.id, TRUE)
             IN  Made(NewLeafNode(h, node.hash, remaining.Key, remaining.Value))
        ELSE IF Len(node.entries) = 0
        \* make([]Entry, -1) panics
        THEN RemovePanic(h)
        ELSE LET Made(coll) == Removed(coll.heap, coll.id, TRUE)
             IN  Made(NewCollisionNode(h, node.hash,
                          SubSeq(node.entries, 2, Len(node.entries))))

RECURSIVE NodeRemove(_, _, _, _)
\* BitmapIndexedNode.Remove without the return of no-node for a branch that
\* has lost its last child
RemoveReplaced_KeepsEmpty(h, id, position, r) ==
    IF r.panic THEN r
    ELSE IF ~r.removed THEN Removed(r.heap, id, FALSE)
    ELSE IF Target(h, id, position) = r.id THEN Removed(r.heap, id, FALSE)
    ELSE LET index == Index(h[id].bitmap, position).count
             Made(b) == Removed(b.heap, b.id, TRUE)
         IN  IF r.id = Nil
             THEN Made(NewBitmapIndexedNode(r.heap,
                           Without(h[id].bitmap, position),
                           removeNode(h[id].children, index)))
             ELSE Made(NewBitmapIndexedNode(r.heap, h[id].bitmap,
                           replaceNode(h[id].children, index, r.id)))

\* the return of BitmapIndexedNode.Remove once the child at position has
\* returned r
RemoveReplaced(h, id, position, r) ==
    IF r.panic THEN r
    ELSE IF ~r.removed THEN Removed(r.heap, id, FALSE)
    ELSE IF Target(h, id, position) = r.id THEN Removed(r.heap, id, FALSE)
    ELSE LET index == Index(h[id].bitmap, position).count
             Made(b) == Removed(b.heap, b.id, TRUE)
         IN  IF r.id = Nil
             THEN LET nextBitmap   == Without(h[id].bitmap, position)
                      nextChildren == removeNode(h[id].children, index)
                  IN  IF Len(nextChildren) = 0
                      THEN Removed(r.heap, Nil, TRUE)
                      ELSE Made(NewBitmapIndexedNode(r.heap,
                                    nextBitmap, nextChildren))
             ELSE Made(NewBitmapIndexedNode(r.heap, h[id].bitmap,
                           replaceNode(h[id].children, index, r.id)))

BitmapIndexedNodeRemove(h, id, hash, offset) ==
    CASE PositionPanics(offset) -> RemovePanic(h)
      [] ~PositionPanics(offset) /\ ~Has(h[id].bitmap, Position(hash, offset)) ->
             Removed(h, id, FALSE)
      [] OTHER ->
             RemoveReplaced(h, id, Position(hash, offset),
                 NodeRemove(h, Target(h, id, Position(hash, offset)),
                            hash, offset + 1))

NodeRemove(h, id, hash, offset) ==
    CASE h[id].kind = "leaf" -> LeafNodeRemove(h, id, hash)
      [] h[id].kind = "collision" -> CollisionNodeRemove(h, id, hash)
      [] h[id].kind = "branch" -> BitmapIndexedNodeRemove(h, id, hash, offset)

\* ----------------------------------------------------------------- ToSlice

RECURSIVE NodeToSlice(_, _)
RECURSIVE ConcatToSlice(_, _, _)

\* the loop of BitmapIndexedNode.ToSlice from child i on
ConcatToSlice(h, children, i) ==
    IF i > Len(children) THEN <<>>
    ELSE NodeToSlice(h, children[i]) \o ConcatToSlice(h, children, i + 1)

NodeToSlice(h, id) ==
    CASE h[id].kind = "leaf" -> <<Entry(h[id].key, h[id].value)>>
      [] h[id].kind = "collision" -> h[id].entries
      [] h[id].kind = "branch" -> ConcatToSlice(h, h[id].children, 1)

\* ------------------------------------------------------------------ hash.go

\* the number of bytes binary.Write emits for a 64-bit integer
WordBytes == WordBits \div 8

\* hash/fnv: the 64-bit FNV-1a digest state as four 16-bit limbs, lowest
\* first; the offset basis is 0xcbf29ce484222325
LimbBits == 16
Limb == 2 ^ LimbBits
offset64 == <<8997, 33826, 40164, 52210>>

\* the prime 0x100000001b3 is 2^40 + primeLow
primeLow == 435

\* the 64-bit word of a digest state
FromLimbs(limbs) ==
    {c \in Bit : (c % LimbBits) \in FromNat(limbs[(c \div LimbBits) + 1])}

\* the little-endian bytes of the non-negative integer n, count of them
RECURSIVE LittleEndian(_, _)
LittleEndian(n, count) ==
    IF count = 0 THEN <<>>
    ELSE <<n % 256>> \o LittleEndian(n \div 256, count - 1)

\* binary.Write(hasher, binary.LittleEndian, x) of a uint64 held as limbs
LimbBytes(x) ==
    <<x[1] % 256, x[1] \div 256, x[2] % 256, x[2] \div 256,
      x[3] % 256, x[3] \div 256, x[4] % 256, x[4] \div 256>>

\* a ^ b on natural numbers
RECURSIVE XorNat(_, _)
XorNat(a, b) ==
    IF a = 0 THEN b
    ELSE IF b = 0 THEN a
    ELSE 2 * XorNat(a \div 2, b \div 2) + ((a + b) % 2)

\* a ^ b on uint64 values held as limbs
Xor64(a, b) ==
    <<XorNat(a[1], b[1]), XorNat(a[2], b[2]),
      XorNat(a[3], b[3]), XorNat(a[4], b[4])>>

\* x * prime modulo 2^64: x * primeLow plus x << 40, limb by limb with the
\* carries; x << 40 moves the low byte of limb k to the high byte of limb
\* k + 2 and the high byte of limb k to the low byte of limb k + 3
MultiplyPrime(x) ==
    LET t1 == x[1] * primeLow
        t2 == x[2] * primeLow + (t1 \div Limb)
        t3 == x[3] * primeLow + (x[1] % 256) * 256 + (t2 \div Limb)
        t4 == x[4] * primeLow + (x[2] % 256) * 256 + (x[1] \div 256)
                  + (t3 \div Limb)
    IN  <<t1 % Limb, t2 % Limb, t3 % Limb, t4 % Limb>>

\* hasher.Write of bytes from byte i on, on the digest state: FNV-1a xors
\* the byte into the low byte and multiplies by the prime
RECURSIVE Write(_, _, _)
Write(state, bytes, i) ==
    IF i > Len(bytes) THEN state
    ELSE Write(MultiplyPrime([state EXCEPT ![1] = XorNat(@, bytes[i])]),
               bytes, i + 1)

\* hasher.Reset(); hasher.Write(bytes); hasher.Sum64(), as limbs
Sum64(bytes) == Write(offset64, bytes, 1)

\* var result uint64
ZeroDigest == <<0, 0, 0, 0>>

\* the values handed to Hash, after unwrapping of interfaces and pointers:
\* nil, an integer, a string (its bytes), a slice or array (its elements), a
\* map (its pairs <<key, value>> in the order MapKeys lists them)
NilValue == [kind |-> "nil", int |-> 0, bytes |-> <<>>, elems |-> <<>>]
IntValue(n) == [kind |-> "int64", int |-> n, bytes |-> <<>>, elems |-> <<>>]
StringValue(bytes) ==
    [kind |-> "string", int |-> 0, bytes |-> bytes, elems |-> <<>>]
SliceValue(elems) ==
    [kind |-> "slice", int |-> 0, bytes |-> <<>>, elems |-> elems]
ArrayValue(elems) ==
    [kind |-> "array", int |-> 0, bytes |-> <<>>, elems |-> elems]
MapValue(pairs) ==
    [kind |-> "map", int |-> 0, bytes |-> <<>>, elems |-> pairs]

hashUpdateOrdered(a, b) == Sum64(LimbBytes(a) \o LimbBytes(b))

\* the map fold that combines with hashUpdateOrdered instead of xor
mapCombine_Ordered(result, fieldHash) == hashUpdateOrdered(result, fieldHash)

\* result ^= fieldHash
mapCombine(result, fieldHash) == Xor64(result, fieldHash)

RECURSIVE hashValue(_)
\* the fold over the elements of a slice or array from element i on
RECURSIVE hashElements(_, _, _)
hashElements(elems, i, result) ==
    IF i > Len(elems) THEN result
    ELSE hashElements(elems, i + 1,
                      hashUpdateOrdered(result, hashValue(elems[i])))

\* the fold over the pairs of a map from pair i on
RECURSIVE hashPairs(_, _, _)
hashPairs(pairs, i, result) ==
    IF i > Len(pairs) THEN result
    ELSE hashPairs(pairs, i + 1,
                   mapCombine(result,
                              hashUpdateOrdered(hashValue(pairs[i][1]),
                                                hashValue(pairs[i][2]))))

hashValue(value) ==
    CASE value.kind = "nil" -> Sum64(<<>>)
      [] value.kind = "int64" -> Sum64(LittleEndian(value.int, WordBytes))
      [] value.kind = "string" -> Sum64(value.bytes)
      [] value.kind \in {"slice", "array"} -> hashElements(value.elems, 1, ZeroDigest)
      [] value.kind = "map" -> hashPairs(value.elems, 1, ZeroDigest)

\* the digest as the 64-bit word the trie reads
Hash(value) == FromLimbs(hashValue(value))

\* ----------------------------------------------------------------- math.go

\* the bits of a uint32
Word32 == 0 .. 31

\* the uint32 with the 16-bit halves high and low
Word(high, low) == FromNat(low) \cup {b + LimbBits : b \in FromNat(high)}

asUint32(original) == original \cap Word32

\* x << k on a uint32
Shl32(x, k) == {b + k : b \in x} \cap Word32

\* the 16-bit halves of a uint32, as numbers
LowHalf(x) == ToNat(x \cap (0 .. LimbBits - 1))
HighHalf(x) == ToNat(Shr(x \cap Word32, LimbBits))

masks ==
    <<Word(21845, 21845), Word(13107, 13107), Word(3855, 3855),
      Word(255, 255), Word(65535, 65535)>>

\* one round of the loop of invert, index counted from 0
InvertStep(carry, index) ==
    LET padding == 2 ^ index
        mask    == masks[index + 1]
        left    == Shr(carry, padding) \cap mask
        right   == Shl32(carry \cap mask, padding)
    IN  asUint32(left \cup right)

RECURSIVE InvertFrom(_, _)
InvertFrom(carry, index) ==
    IF index >= Len(masks) THEN carry
    ELSE InvertFrom(InvertStep(carry, index), index + 1)

invert(original) == InvertFrom(original, 0)

\* the product of two 16-bit numbers as its two 16-bit halves, the second
\* factor taken a byte at a time
MulLimb(x, y) ==
    LET low  == x * (y % 256)
        high == x * (y \div 256)
        sum  == low + (high % 256) * 256
    IN  [lo |-> sum % Limb, hi |-> (high \div 256) + (sum \div Limb)]

\* the four limbs of a sum of columns: column 0, and the sums of the columns
\* 1, 2 and 3 before their carries
MultiplySum(c0, s1, s2, s3) ==
    <<c0, s1 % Limb, (s2 + s1 \div Limb) % Limb,
      (s3 + (s2 + s1 \div Limb) \div Limb) % Limb>>

MultiplyParts(p00, p01, p10, p11) ==
    MultiplySum(p00.lo, p00.hi + p01.lo + p10.lo,
                p01.hi + p10.hi + p11.lo, p11.hi)

\* uint64(a) * uint64(b) for two uint32
Multiply(a, b) ==
    FromLimbs(MultiplyParts(MulLimb(LowHalf(a), LowHalf(b)),
                            MulLimb(LowHalf(a), HighHalf(b)),
                            MulLimb(HighHalf(a), LowHalf(b)),
                            MulLimb(HighHalf(a), HighHalf(b))))

salt == Word(5989, 17185)

\* an inverted salt that is off by two
invertedSalt_Off == Word(28672, 227)

invertedSalt == Word(28672, 225)

Scramble(original) ==
    asUint32(Multiply(
        invert(asUint32(Multiply(asUint32(original), salt))),
        invertedSalt))

\* ------------------------------------------------------------------ driver

\* bound on the number of Set and Remove calls of one run
MaxOps == 4

\* the hashes the callers pass: chunk 0 shared by H0, HA and HD; H0 and HA part
\* at level 1, H0 and HD only at level 5; HB has another chunk 0
H0 == {}
HA == {6}
HB == {0}
HD == {30}
Hashes == {H0, HA, HB, HD}

\* the key and value of a Set call
Entries == {Entry("a", 1), Entry("b", 2)}

\* ghost: no value recorded for a hash
Absent == ZeroValue

NoOp ==
    [op |-> "none", hash |-> {}, key |-> ZeroKey, value |-> ZeroValue,
     prev |-> Nil, before |-> Absent, removed |-> FALSE]

VARIABLES
    heap,      \* the nodes allocated so far
    root,      \* the published root, Nil for no-node
    last,      \* the last call: its arguments, the root it was made on (prev),
               \* the ghost value of its hash before it (before), its result
    stored,    \* ghost: hash -> value last set and not removed since, or Absent
    ops,       \* number of calls made
    panicked,  \* a call unwound with the panic of Position
    wroot,     \* writer -> the root the writer has derived from the base root
    wlog,      \* writer -> the calls the writer has made, in order
    snap,      \* the heap and the Get and ToSlice results of the base root
               \* when the writers started
    hashed,    \* the Hash call: its value, whether it was made, the order
               \* MapKeys listed the pairs of a map in, its digest
    members,   \* ghost: the items added to the set and not removed since
    issued,    \* ghost: the seeds handed to the factory, in order
    applied    \* the call of a function of plain values: the function, its
               \* arguments, how often it was applied, what it returned

vars == <<heap, root, last, stored, ops, panicked, wroot, wlog, snap,
          hashed, members, issued, applied>>

Writers == {1, 2}

NoSnap == [heap |-> <<>>, get |-> [h \in Hashes |-> NotFound], slice |-> <<>>]

\* no function applied
NoCall ==
    [fn |-> "none", word |-> {}, arg |-> {}, offset |-> 0, times |-> 0,
     panic |-> FALSE, result |-> {}, count |-> 0, ok |-> FALSE]

\* no Hash call made yet on value
NoHash(value) ==
    [value |-> value, called |-> FALSE, order |-> <<>>, digest |-> {}]

Init ==
    /\ heap = <<>>
    /\ root = Nil
    /\ last = NoOp
    /\ stored = [h \in Hashes |-> Absent]
    /\ ops = 0
    /\ panicked = FALSE
    /\ wroot = [w \in Writers |-> Nil]
    /\ wlog = [w \in Writers |-> <<>>]
    /\ snap = NoSnap
    /\ hashed = NoHash(NilValue)
    /\ members = {}
    /\ issued = <<>>
    /\ applied = NoCall

\* root.Get(hash, 0) as the callers make it (nil root: not found)
Get(r, hash) == IF r = Nil THEN NotFound ELSE NodeGet(heap, r, hash, 0)

\* root.ToSlice() as the callers make it (nil root: empty)
ToSlice(r) == IF r = Nil THEN <<>> ELSE NodeToSlice(heap, r)

\* the caller of Set: a leaf for the first entry, root.Set(..., 0) afterwards
SetOp(key, value, hash) ==
    /\ ~panicked
    /\ ops < MaxOps
    /\ LET Publish(r) ==
               /\ heap' = r.heap
               /\ root' = IF r.panic THEN root ELSE r.id
               /\ panicked' = r.panic
               /\ stored' = IF r.panic THEN stored
                            ELSE [stored EXCEPT ![hash] = value]
       IN  Publish(IF root = Nil
                   THEN NewLeafNode(heap, hash, key, value)
                   ELSE NodeSet(heap, root, key, value, hash, 0))
    /\ last' = [op |-> "set", hash |-> hash, key |-> key, value |-> value,
                prev |-> root, before |-> stored[hash], removed |-> FALSE]
    /\ ops' = ops + 1
    /\ UNCHANGED <<wroot, wlog, snap, hashed, members, issued, applied>>

\* the caller of Remove: nothing on a nil root, root.Remove(hash, 0) otherwise
RemoveOp(hash) ==
    /\ ~panicked
    /\ ops < MaxOps
    /\ root # Nil
    /\ LET Publish(r) ==
               /\ heap' = r.heap
               /\ root' = IF r.panic THEN root ELSE r.id
               /\ panicked' = r.panic
               /\ stored' = IF r.panic THEN stored
                            ELSE [stored EXCEPT ![hash] = Absent]
               /\ last' = [op |-> "remove", hash |-> hash, key |-> ZeroKey,
                           value |-> ZeroValue, prev |-> root,
                           before |-> stored[hash], removed |-> r.removed]
       IN  Publish(NodeRemove(heap, root, hash, 0))
    /\ ops' = ops + 1
    /\ UNCHANGED <<wroot, wlog, snap, hashed, members, issued, applied>>

Next ==
    \/ \E e \in Entries, h \in Hashes : SetOp(e.Key, e.Value, h)
    \/ \E h \in Hashes : RemoveOp(h)

Spec == Init /\ [][Next]_vars

\* ----------------------------------------------------------------- writers

\* bound on the number of calls the two writers make together
MaxWriterOps == 3

\* the hashes and the entry the writers pass
WriterHashes == {H0, HA, HB}
WriterEntry == Entry("c", 3)

SetCall(key, value, hash) ==
    [op |-> "set", hash |-> hash, key |-> key, value |-> value]
RemoveCall(hash) ==
    [op |-> "remove", hash |-> hash, key |-> ZeroKey, value |-> ZeroValue]

\* one call of a caller that holds root r: the new heap and the root the
\* caller holds afterwards
Apply(h, r, call) ==
    LET Held(s) == [heap |-> s.heap, root |-> IF s.panic THEN r ELSE s.id,
                    panic |-> s.panic]
    IN  IF call.op = "set"
        THEN Held(IF r = Nil
                  THEN NewLeafNode(h, call.hash, call.key, call.value)
                  ELSE NodeSet(h, r, call.key, call.value, call.hash, 0))
        ELSE IF r = Nil THEN [heap |-> h, root |-> r, panic |-> FALSE]
        ELSE Held(NodeRemove(h, r, call.hash, 0))

\* the calls of log from call i on, made one after the other by a caller alone
RECURSIVE Replay(_, _, _, _)
Replay(h, r, log, i) ==
    IF i > Len(log) THEN [heap |-> h, root |-> r, panic |-> FALSE]
    ELSE LET Rest(s) == IF s.panic THEN s ELSE Replay(s.heap, s.root, log, i + 1)
         IN  Rest(Apply(h, r, log[i]))

\* the base roots the writers start from: tries built by Set calls, and a
\* collision node built directly
BaseScripts ==
    { <<SetCall("a", 1, H0), SetCall("b", 2, HB)>>,
      <<SetCall("a", 1, H0), SetCall("b", 2, HA)>>,
      <<SetCall("a", 1, HB), SetCall("b", 2, HD), SetCall("a", 2, H0)>> }

Bases ==
    {Replay(<<>>, Nil, script, 1) : script \in BaseScripts}
        \cup {[heap |-> NewCollisionNode(<<>>, H0,
                            <<Entry("a", 1), Entry("b", 2)>>).heap,
               root |-> 1, panic |-> FALSE]}

InitW ==
    /\ \E b \in Bases :
           /\ heap = b.heap
           /\ root = b.root
           /\ snap = [heap  |-> b.heap,
                      get   |-> [h \in Hashes |-> NodeGet(b.heap, b.root, h, 0)],
                      slice |-> NodeToSlice(b.heap, b.root)]
           /\ wroot = [w \in Writers |-> b.root]
    /\ wlog = [w \in Writers |-> <<>>]
    /\ last = NoOp
    /\ stored = [h \in Hashes |-> Absent]
    /\ ops = 0
    /\ panicked = FALSE
    /\ hashed = NoHash(NilValue)
    /\ members = {}
    /\ issued = <<>>
    /\ applied = NoCall

\* writer w makes one call on the root it holds and keeps the result
WriterCall(w, call) ==
    /\ ~panicked
    /\ ops < MaxWriterOps
    /\ LET Keep(s) ==
               /\ heap' = s.heap
               /\ wroot' = [wroot EXCEPT ![w] = s.root]
               /\ panicked' = s.panic
       IN  Keep(Apply(heap, wroot[w], call))
    /\ wlog' = [wlog EXCEPT ![w] = Append(@, call)]
    /\ ops' = ops + 1
    /\ UNCHANGED <<root, last, stored, snap, hashed, members, issued, applied>>

WriterSet(w, hash) ==
    WriterCall(w, SetCall(WriterEntry.Key, WriterEntry.Value, hash))

WriterRemove(w, hash) ==
    /\ wroot[w] # Nil
    /\ WriterCall(w, RemoveCall(hash))

NextW ==
    \/ \E w \in Writers, h \in WriterHashes : WriterSet(w, h)
    \/ \E w \in Writers, h \in WriterHashes : WriterRemove(w, h)

SpecW == InitW /\ [][NextW]_vars

\* the tree under a reference, without the references
RECURSIVE Unfold(_, _)
Unfold(h, id) ==
    IF id = Nil THEN [LeafNode({}, ZeroKey, ZeroValue) EXCEPT !.kind = "nil"]
    ELSE [h[id] EXCEPT !.children =
              [i \in 1 .. Len(h[id].children) |-> Unfold(h, h[id].children[i])]]

\* ---------------------------------------------------------------- hashing

\* bounds on the pairs of a map and on the elements of a slice or array
MaxPairs == 3
MaxElems == 2

\* the strings "a", "b", "c", "d" (their bytes) and the integers of the inputs
HashStrings == {<<97>>, <<98>>, <<99>>, <<100>>}
HashInts == {1, 2}

\* the sequences over set of at most max elements
SeqsUpTo(set, max) == UNION {[1 .. n -> set] : n \in 0 .. max}

\* the maps from strings to integers with at most MaxPairs pairs, in one
\* listing each
HashMaps ==
    {MapValue(pairs) :
        pairs \in {q \in SeqsUpTo({<<StringValue(k), IntValue(n)>> :
                                      k \in HashStrings, n \in HashInts},
                                  MaxPairs) :
                      \A i, j \in 1 .. Len(q) :
                          i < j => q[i][1].bytes[1] < q[j][1].bytes[1]}}

HashInputs ==
    {NilValue}
        \cup {IntValue(n) : n \in HashInts}
        \cup {StringValue(k) : k \in HashStrings}
        \cup {SliceValue(e) : e \in SeqsUpTo({IntValue(n) : n \in HashInts},
                                            MaxElems)}
        \cup {ArrayValue(e) : e \in SeqsUpTo({IntValue(n) : n \in HashInts},
                                            MaxElems)}
        \cup HashMaps

\* the orders in which MapKeys may list n pairs
Orders(n) == {o \in [1 .. n -> 1 .. n] : \A i, j \in 1 .. n : o[i] = o[j] => i = j}

\* value as a Hash call meets it when MapKeys lists the pairs in order
Enumerated(value, order) ==
    IF value.kind = "map"
    THEN MapValue([i \in 1 .. Len(order) |-> value.elems[order[i]]])
    ELSE value

InitH ==
    /\ \E value \in HashInputs : hashed = NoHash(value)
    /\ heap = <<>>
    /\ root = Nil
    /\ last = NoOp
    /\ stored = [h \in Hashes |-> Absent]
    /\ ops = 0
    /\ panicked = FALSE
    /\ wroot = [w \in Writers |-> Nil]
    /\ wlog = [w \in Writers |-> <<>>]
    /\ snap = NoSnap
    /\ members = {}
    /\ issued = <<>>
    /\ applied = NoCall

\* the call Hash(value); a map is ranged over in the order MapKeys returns
HashCall(order) ==
    /\ ~hashed.called
    /\ hashed' = [value |-> hashed.value, called |-> TRUE, order |-> order,
                  digest |-> Hash(Enumerated(hashed.value, order))]
    /\ UNCHANGED <<heap, root, last, stored, ops, panicked, wroot, wlog, snap,
                   members, issued, applied>>

NextH ==
    \E order \in Orders(IF hashed.value.kind = "map"
                        THEN Len(hashed.value.elems) ELSE 0) : HashCall(order)

SpecH == InitH /\ [][NextH]_vars

\* ------------------------------------------------------------ collections

\* bound on the number of Set and Remove calls on one collections.Set
MaxSetOps == 5

\* the value of type void stored with every item
void == ZeroValue

\* the integers kept in a set: the digests of 0 and 64 share the chunk of
\* level 0 and part at level 1, those of 1 and 2 have other chunks at level 0
Seeds == {0, 1, 2, 64}
Items == {0, 1, 64}

\* hamt.Hash(item)
ItemHash == [item \in Seeds |-> Hash(IntValue(item))]

\* Set.Has on the set with root r
SetHas(h, r, item) ==
    IF r = Nil THEN NotFound ELSE NodeGet(h, r, ItemHash[item], 0)

IsEmpty == root = Nil

Size == IF root = Nil THEN 0 ELSE Len(NodeToSlice(heap, root))

\* Set.Set(item) and Set.Remove(item): the call on the root, the result kept
\* as the root
SetCallOn(call, item) ==
    /\ ~panicked
    /\ ops < MaxSetOps
    /\ LET Keep(s) ==
               /\ heap' = s.heap
               /\ root' = s.root
               /\ panicked' = s.panic
       IN  Keep(Apply(heap, root, call))
    /\ last' = [NoOp EXCEPT !.op = call.op, !.hash = call.hash, !.prev = root]
    /\ members' = IF call.op = "set" THEN members \cup {item}
                  ELSE members \ {item}
    /\ ops' = ops + 1
    /\ UNCHANGED <<stored, wroot, wlog, snap, hashed, issued, applied>>

SetSet(item) == SetCallOn(SetCall(item, void, ItemHash[item]), item)

SetRemove(item) == SetCallOn(RemoveCall(ItemHash[item]), item)

NextC ==
    \/ \E item \in Items : SetSet(item)
    \/ \E item \in Items : SetRemove(item)

SpecC == Init /\ [][NextC]_vars

\* ---------------------------------------------------------------- builder

\* bounds on the number of Build and BuildList calls on one Builder and on
\* the size passed to BuildList
MaxBuilds == 3
MaxListSize == 2

\* nextSeeds from candidate i on: the candidates are the numbers rand.Int63n
\* returns; a candidate the seeds set has is not taken, one it has not is
\* added to the set
RECURSIVE nextSeeds(_, _, _, _)
nextSeeds(h, r, candidates, i) ==
    IF i > Len(candidates)
    THEN [heap |-> h, root |-> r, panic |-> FALSE, taken |-> TRUE]
    ELSE LET Rest(s) ==
                 IF s.panic
                 THEN [heap |-> s.heap, root |-> s.root, panic |-> TRUE,
                       taken |-> TRUE]
                 ELSE nextSeeds(s.heap, s.root, candidates, i + 1)
             Has1(found) ==
                 IF found.panic
                 THEN [heap |-> h, root |-> r, panic |-> TRUE, taken |-> TRUE]
                 ELSE IF found.found
                 THEN [heap |-> h, root |-> r, panic |-> FALSE,
                       taken |-> FALSE]
                 ELSE Rest(Apply(h, r, SetCall(candidates[i], void,
                                               ItemHash[candidates[i]])))
         IN  Has1(SetHas(h, r, candidates[i]))

\* Build and BuildList(size): nextSeeds loops until it has taken size
\* candidates (those it drew and did not take leave no trace) and every
\* seed taken is handed to the factory
BuildWithSeeds(candidates) ==
    /\ ~panicked
    /\ ops < MaxBuilds
    /\ LET Keep(s) ==
               /\ s.taken
               /\ heap' = s.heap
               /\ root' = s.root
               /\ panicked' = s.panic
               /\ issued' = IF s.panic THEN issued ELSE issued \o candidates
       IN  Keep(nextSeeds(heap, root, candidates, 1))
    /\ ops' = ops + 1
    /\ UNCHANGED <<last, stored, wroot, wlog, snap, hashed, members, applied>>

Build == \E seed \in Seeds : BuildWithSeeds(<<seed>>)

BuildList(size) == \E candidates \in [1 .. size -> Seeds] : BuildWithSeeds(candidates)

NextB ==
    \/ Build
    \/ \E size \in 0 .. MaxListSize : BuildList(size)

SpecB == Init /\ [][NextB]_vars

\* --------------------------------------------------------- collision nodes

\* bounds on the number of calls made on a collision node and its results, and
\* on the length of the entry list the node is constructed with
MaxNodeOps == 3
MaxEntries == 3

\* the hash the node is constructed with is one of these, as is the hash of
\* every call
NodeHashes == {H0, HA}

\* a caller constructs a collision node from a hash and an entry list
InitN ==
    /\ \E hash \in NodeHashes, entries \in SeqsUpTo(Entries, MaxEntries) :
           /\ heap = NewCollisionNode(<<>>, hash, entries).heap
           /\ root = NewCollisionNode(<<>>, hash, entries).id
    /\ last = NoOp
    /\ stored = [h \in Hashes |-> Absent]
    /\ ops = 0
    /\ panicked = FALSE
    /\ wroot = [w \in Writers |-> Nil]
    /\ wlog = [w \in Writers |-> <<>>]
    /\ snap = NoSnap
    /\ hashed = NoHash(NilValue)
    /\ members = {}
    /\ issued = <<>>
    /\ applied = NoCall

\* node.Set(key, value, hash, 0) on the node the caller holds; the caller
\* keeps the result; snap keeps the heap as it was before the call
NodeSetCall(key, value, hash) ==
    /\ ~panicked
    /\ ops < MaxNodeOps
    /\ root # Nil
    /\ LET Keep(r) ==
               /\ heap' = r.heap
               /\ root' = IF r.panic THEN root ELSE r.id
               /\ panicked' = r.panic
       IN  Keep(NodeSet(heap, root, key, value, hash, 0))
    /\ last' = [NoOp EXCEPT !.op = "set", !.hash = hash, !.key = key,
                            !.value = value, !.prev = root]
    /\ snap' = [NoSnap EXCEPT !.heap = heap]
    /\ ops' = ops + 1
    /\ UNCHANGED <<stored, wroot, wlog, hashed, members, issued, applied>>

\* node.Remove(hash, 0) on the node the caller holds
NodeRemoveCall(hash) ==
    /\ ~panicked
    /\ ops < MaxNodeOps
    /\ root # Nil
    /\ LET Keep(r) ==
               /\ heap' = r.heap
               /\ root' = IF r.panic THEN root ELSE r.id
               /\ panicked' = r.panic
               /\ last' = [NoOp EXCEPT !.op = "remove", !.hash = hash,
                                       !.prev = root, !.removed = r.removed]
       IN  Keep(NodeRemove(heap, root, hash, 0))
    /\ snap' = [NoSnap EXCEPT !.heap = heap]
    /\ ops' = ops + 1
    /\ UNCHANGED <<stored, wroot, wlog, hashed, members, issued, applied>>

NextN ==
    \/ \E e \in Entries, h \in NodeHashes : NodeSetCall(e.Key, e.Value, h)
    \/ \E h \in NodeHashes : NodeRemoveCall(h)

SpecN == InitN /\ [][NextN]_vars

\* --------------------------------------------------------- bitmap calls

\* bounds on the number of bits set in a bitmap handed to Index, and on how
\* far beyond [0, maxOffset] the offsets handed to Position reach
MaxBitmapBits == 4
MaxBeyond == 2

\* the bit positions the bitmaps handed to Index are made of: those of
\* TestBitmapIndex, both ends of the word and both sides of its middle
BitmapBits == {0, 2, 5, 10, 31, 32, 63}
Bitmaps ==
    {b \in SUBSET BitmapBits : Cardinality(b) <= MaxBitmapBits} \cup {AllOnes}

\* the masks handed to Index: every one-hot mask 1 << p, and 0
Masks == {{p} : p \in Bit} \cup {{}}

\* the hashes and offsets handed to Position
PositionHashes == Hashes \cup {ItemHash[seed] : seed \in Seeds} \cup {AllOnes}
PositionOffsets == (0 - MaxBeyond) .. (maxOffset + MaxBeyond)

\* a caller is about to call bitmap.Index(position) or
\* bitmap.Position(hash, offset)
BitmapCalls ==
    {[NoCall EXCEPT !.fn = "Index", !.word = bitmap, !.arg = position] :
         bitmap \in Bitmaps, position \in Masks}
        \cup {[NoCall EXCEPT !.fn = "Position", !.word = hash, !.offset = offset] :
                  hash \in PositionHashes, offset \in PositionOffsets}

InitP ==
    /\ applied \in BitmapCalls
    /\ heap = <<>>
    /\ root = Nil
    /\ last = NoOp
    /\ stored = [h \in Hashes |-> Absent]
    /\ ops = 0
    /\ panicked = FALSE
    /\ wroot = [w \in Writers |-> Nil]
    /\ wlog = [w \in Writers |-> <<>>]
    /\ snap = NoSnap
    /\ hashed = NoHash(NilValue)
    /\ members = {}
    /\ issued = <<>>

\* the call bitmap.Index(position)
IndexCall ==
    /\ applied.fn = "Index"
    /\ applied.times = 0
    /\ applied' = [applied EXCEPT
                      !.times = 1,
                      !.count = Index(applied.word, applied.arg).count,
                      !.ok = Index(applied.word, applied.arg).ok]
    /\ UNCHANGED <<heap, root, last, stored, ops, panicked, wroot, wlog, snap,
                   hashed, members, issued>>

\* the call bitmap.Position(hash, offset): the panic of the guard, or the mask
PositionCall ==
    /\ applied.fn = "Position"
    /\ applied.times = 0
    /\ applied' = IF PositionPanics(applied.offset)
                  THEN [applied EXCEPT !.times = 1, !.panic = TRUE]
                  ELSE [applied EXCEPT
                            !.times = 1,
                            !.result = Position(applied.word, applied.offset)]
    /\ UNCHANGED <<heap, root, last, stored, ops, panicked, wroot, wlog, snap,
                   hashed, members, issued>>

NextP ==
    \/ IndexCall
    \/ PositionCall

SpecP == InitP /\ [][NextP]_vars

\* -------------------------------------------------------------- scramble

\* bounds on the number of times Scramble is applied in a row, and on the
\* small low halves of its inputs
MaxScrambles == 2
MaxLow == 12

\* the halves the inputs of Scramble are made of: those of TestScramble and
\* TestInvertInvolutive, and both ends of the range
HighHalves == {0, 1, 4660, 32768, 65535}
LowHalves == (0 .. MaxLow) \cup {100, 1000, 12345, 22136, 65535}
ScrambleInputs == {Word(high, low) : high \in HighHalves, low \in LowHalves}

InitS ==
    /\ \E original \in ScrambleInputs :
           applied = [NoCall EXCEPT !.fn = "Scramble", !.word = original,
                                   !.result = original]
    /\ heap = <<>>
    /\ root = Nil
    /\ last = NoOp
    /\ stored = [h \in Hashes |-> Absent]
    /\ ops = 0
    /\ panicked = FALSE
    /\ wroot = [w \in Writers |-> Nil]
    /\ wlog = [w \in Writers |-> <<>>]
    /\ snap = NoSnap
    /\ hashed = NoHash(NilValue)
    /\ members = {}
    /\ issued = <<>>

\* Scramble applied to the original, then to its own result
ScrambleCall ==
    /\ applied.fn = "Scramble"
    /\ applied.times < MaxScrambles
    /\ applied' = [applied EXCEPT !.times = @ + 1, !.result = Scramble(@)]
    /\ UNCHANGED <<heap, root, last, stored, ops, panicked, wroot, wlog, snap,
                   hashed, members, issued>>

NextS == ScrambleCall

SpecS == InitS /\ [][NextS]_vars

\* ------------------------------------------------------------------ claims

StoredHashes == {h \in Hashes : stored[h] # Absent}

LastSet == last.op = "set" /\ ~panicked
LastRemove == last.op = "remove" /\ ~panicked

\* the hashes other than that of the last call which the root it was made on
\* resolved
OthersFound == {h \in Hashes \ {last.hash} : Get(last.prev, h).found}

IsBranch(id) == id # Nil /\ heap[id].kind = "branch"

\* C1: immediately after Set(k, v, h, 0) returns root r, r.Get(h, 0) is
\* (v, true).
C1_SetThenGet == LastSet => Get(root, last.hash) = Found(last.value)

\* C2: Set(k, v, h, 0) leaves every other hash the old root resolved
\* retrievable with its value on the new root.
C2_SetKeepsOthers ==
    LastSet => \A h \in OthersFound : Get(root, h) = Get(last.prev, h)

C4_RemoveThenGet ==
    (LastRemove /\ last.removed) => (root = Nil \/ Get(root, last.hash) = NotFound)

C4_Witness ==
    /\ LastRemove
    /\ last.removed
    /\ Get(last.prev, last.hash).found
    /\ IsBranch(root)

\* C5: Remove(h, 0) of a hash that was set and not removed since reports
\* removed = true.
C5_RemoveStored == (LastRemove /\ last.before # Absent) => last.removed

\* C6: Remove(h, 0) that reports removed = true leaves every other hash the
\* old root resolved retrievable with its value on the new root.
C6_RemoveKeepsOthers ==
    (LastRemove /\ last.removed)
        => \A h \in OthersFound : root # Nil /\ Get(root, h) = Get(last.prev, h)

C6_Witness ==
    /\ LastRemove
    /\ last.removed
    /\ Cardinality(OthersFound) >= 2
    /\ root # last.prev

\* C7: the length of Flatten equals the number of distinct hashes that were
\* set and not removed since.
C7_FlattenLength == ~panicked => Len(ToSlice(root)) = Cardinality(StoredHashes)

\* the children of a branch without the slot at 0-based index
Others(children, index) == removeNode(children, index)

\* The branches on the path of a Set(_, _, hash, offset) call on node old that
\* returned node new: a branch that replaced the child at the slot of hash
\* keeps every other child, and so do the branches the call made beneath it; a
\* branch that got a new slot keeps all the children of the old branch; the
\* branch a leaf was wrapped in keeps that leaf.
RECURSIVE SetShares(_, _, _, _)
SetShares(old, new, hash, offset) ==
    LET o == heap[old]
        n == heap[new]
        position == Position(hash, offset)
    IN  CASE o.kind = "branch" ->
                 LET index == Index(o.bitmap, position).count
                 IN  /\ n.kind = "branch"
                     /\ Has(n.bitmap, position)
                     /\ Index(n.bitmap, position).count = index
                     /\ Others(n.children, index)
                            = IF Has(o.bitmap, position)
                              THEN Others(o.children, index)
                              ELSE o.children
                     /\ Has(o.bitmap, position)
                            => SetShares(o.children[index + 1],
                                   n.children[index + 1], hash, offset)
          [] o.kind = "leaf" /\ o.hash # hash ->
                 /\ n.kind = "branch"
                 /\ IF Position(o.hash, offset) = position
                    THEN /\ Len(n.children) = 1
                         /\ SetShares(old, n.children[1], hash, offset + 1)
                    ELSE Others(n.children, Index(n.bitmap, position).count)
                             = <<old>>
          [] OTHER -> TRUE

\* The branches on the path of a Remove(hash, offset) call on node old that
\* reported true and returned node new: a branch that lost the slot of hash
\* keeps every other child, a branch that replaced the child at that slot
\* keeps every other child, and so do the branches beneath it.
RECURSIVE RemoveShares(_, _, _, _)
RemoveShares(old, new, hash, offset) ==
    LET o == heap[old]
        position == Position(hash, offset)
        index == Index(o.bitmap, position).count
    IN  CASE o.kind = "branch" /\ new # Nil ->
                 LET n == heap[new]
                 IN  /\ n.kind = "branch"
                     /\ Has(o.bitmap, position)
                     /\ IF Has(n.bitmap, position)
                        THEN /\ n.bitmap = o.bitmap
                             /\ Others(n.children, index)
                                    = Others(o.children, index)
                             /\ RemoveShares(o.children[index + 1],
                                    n.children[index + 1], hash, offset + 1)
                        ELSE n.children = Others(o.children, index)
          [] OTHER -> TRUE

\* C8: after a Branch Set or Remove that changes one slot, every other child
\* of the resulting branch is the identical instance of the corresponding
\* child of the original branch, in the same relative order.
C8_SiblingsShared ==
    /\ (LastSet /\ last.prev # Nil) => SetShares(last.prev, root, last.hash, 0)
    /\ (LastRemove /\ last.removed)
           => RemoveShares(last.prev, root, last.hash, 0)

C8_Witness ==
    /\ ~panicked
    /\ IsBranch(last.prev)
    /\ IsBranch(root)
    /\ root # last.prev
    /\ Len(heap[last.prev].children) >= 2
    /\ \E i \in 1 .. Len(heap[last.prev].children) :
           \E j \in 1 .. Len(heap[root].children) :
               heap[last.prev].children[i] = heap[root].children[j]

\* C10: no Get, Set or Remove call at offset 0 invokes Position with an
\* offset outside [0, 10]: no call panics.
C10_NoPanic == ~panicked /\ \A h \in Hashes : ~Get(root, h).panic

\* C9: while two writers derive roots from the same base root, their calls
\* interleaved in any order, the base root's Get and Flatten results stay what
\* they were, and each writer's root is the one its calls produce when made
\* alone on the base root.
C9_WritersIsolated ==
    /\ \A h \in Hashes : Get(root, h) = snap.get[h]
    /\ ToSlice(root) = snap.slice
    /\ ~panicked =>
           \A w \in Writers :
               LET alone == Replay(snap.heap, root, wlog[w], 1)
               IN  Unfold(heap, wroot[w]) = Unfold(alone.heap, alone.root)

C9_Witness ==
    /\ ~panicked
    /\ \A w \in Writers : Len(wlog[w]) >= 1 /\ wroot[w] # root
    /\ Len(wlog[1]) >= 2
    /\ wlog[1][1].op = "set"
    /\ wlog[2][1].op = "remove"
    /\ Unfold(heap, wroot[1]) # Unfold(heap, wroot[2])

\* the hash that agrees with hash except in the lowest bit of the chunk that
\* Position reads at offset level
FlipAt(hash, level) ==
    (hash \ {level * shiftWidth}) \cup ({level * shiftWidth} \ hash)

\* the last call was a Set on a root that was a single leaf, with a hash other
\* than the leaf's and the leaf's Position at offset 0
LeafSplit ==
    /\ LastSet
    /\ last.prev # Nil
    /\ heap[last.prev].kind = "leaf"
    /\ heap[last.prev].hash # last.hash
    /\ Position(heap[last.prev].hash, 0) = Position(last.hash, 0)

\* C11: from a single leaf with hash h1, Set(k2, v2, h2, 0) with h2 # h1 and
\* the same Position at offset 0 returns a root on which Get(h1, 0) and
\* Get(h2, 0) return their own values, whichever of the levels 1..10 is the
\* first where the two hashes differ.
C11_LeafSplit ==
    /\ LeafSplit =>
           /\ Get(root, heap[last.prev].hash) = Found(heap[last.prev].value)
           /\ Get(root, last.hash) = Found(last.value)
    /\ (~panicked /\ root # Nil /\ heap[root].kind = "leaf") =>
           \A level \in 1 .. maxOffset :
               LET Both(s) ==
                       /\ ~s.panic
                       /\ NodeGet(s.heap, s.root, heap[root].hash, 0)
                              = Found(heap[root].value)
                       /\ NodeGet(s.heap, s.root,
                                  FlipAt(heap[root].hash, level), 0)
                              = Found(WriterEntry.Value)
               IN  Both(Apply(heap, root,
                              SetCall(WriterEntry.Key, WriterEntry.Value,
                                      FlipAt(heap[root].hash, level))))

C11_Witness ==
    /\ LeafSplit
    /\ Position(heap[last.prev].hash, 1) = Position(last.hash, 1)
    /\ IsBranch(root)
    /\ IsBranch(heap[root].children[1])
    /\ IsBranch(heap[heap[root].children[1]].children[1])

\* the key of the entry of Entries that carries value
KeyOf(value) == (CHOOSE e \in Entries : e.Value = value).Key

\* the keys of a flattened trie
Keys(slice) == {slice[i].Key : i \in 1 .. Len(slice)}

\* C12: Set at offset 0 with a key whose hash is that of a different key
\* already stored keeps both entries (in a CollisionNode): Flatten of the new
\* root contains both keys.
C12_CollisionKept ==
    (/\ LastSet
     /\ last.before # Absent
     /\ Get(last.prev, last.hash) = Found(last.before)
     /\ KeyOf(last.before) # last.key)
        => {KeyOf(last.before), last.key} \subseteq Keys(ToSlice(root))

\* the nodes of the trie with root id
RECURSIVE NodesOf(_, _)
NodesOf(h, id) ==
    IF id = Nil THEN {}
    ELSE {id} \cup UNION {NodesOf(h, h[id].children[i]) :
                              i \in 1 .. Len(h[id].children)}

\* C13: in every root reachable from a single leaf by Set and Remove calls,
\* every branch has as many children as its bitmap has bits set.
C13_ChildrenMatchBitmap ==
    \A id \in NodesOf(heap, root) :
        heap[id].kind = "branch"
            => Len(heap[id].children) = Cardinality(heap[id].bitmap)

C13_Witness ==
    /\ LastRemove
    /\ last.removed
    /\ IsBranch(root)
    /\ Len(heap[last.prev].children) > Len(heap[root].children)
    /\ \E i \in 1 .. Len(heap[root].children) :
           IsBranch(heap[root].children[i])

\* C17: Set at offset 0 with the key, value and hash of an entry that is
\* already stored returns the identical root instance.
C17_SameSetSameRoot ==
    (/\ LastSet
     /\ last.prev # Nil
     /\ last.before = last.value
     /\ Get(last.prev, last.hash) = Found(last.value))
        => root = last.prev

\* the hashes of the entries stored beneath node id
HashesUnder(h, id) ==
    {h[n].hash : n \in {m \in NodesOf(h, id) : h[m].kind # "branch"}}

\* the bit of bitmap that the child at index (from 0) belongs to
BitOf(bitmap, index) ==
    CHOOSE b \in bitmap : Cardinality({c \in bitmap : c < b}) = index

\* every branch beneath id, id itself at depth, keeps beneath the child at bit
\* b only entries whose Position at the branch's depth is 1 << b
RECURSIVE Disciplined(_, _, _)
Disciplined(h, id, depth) ==
    (id # Nil /\ h[id].kind = "branch") =>
        \A i \in 1 .. Len(h[id].children) :
            /\ \A x \in HashesUnder(h, h[id].children[i]) :
                   /\ ~PositionPanics(depth)
                   /\ Position(x, depth) = {BitOf(h[id].bitmap, i - 1)}
            /\ Disciplined(h, h[id].children[i], depth + 1)

\* C19: in every root reachable from a single leaf by Set and Remove calls at
\* offset 0, for every branch at depth d and every entry beneath its child at
\* bit b, Position(entry hash, d) is 1 << b.
C19_OffsetDiscipline == Disciplined(heap, root, 0)

\* the offsets a caller may pass to Get: those of the levels and one beyond
\* either end
AnyOffsets == -1 .. maxOffset + 1

\* the collision nodes with at least one entry that the callers hold
HeldCollisions ==
    {id \in UNION {NodesOf(heap, r) : r \in {root} \cup {wroot[w] : w \in Writers}} :
        heap[id].kind = "collision" /\ Len(heap[id].entries) > 0}

Listed(value) == [i \in 1 .. Len(value.elems) |-> i]

\* C16: the Hash of a map does not depend on the order in which its pairs are
\* enumerated: in whichever order MapKeys lists them, the digest is that of
\* the pairs enumerated as written down.
C16_MapOrderFree ==
    (hashed.called /\ hashed.value.kind = "map")
        => hashed.digest = Hash(hashed.value)

C16_Witness ==
    /\ hashed.called
    /\ hashed.value.kind = "map"
    /\ Len(hashed.value.elems) = MaxPairs
    /\ hashed.order[1] # Listed(hashed.value)[1]
    /\ hashed.order[MaxPairs] # Listed(hashed.value)[MaxPairs]
    /\ hashed.digest # {}

\* C18: the Hash of an empty slice or array is the digest Hash returns for a
\* nil reference.
C18_EmptySequenceNil ==
    (/\ hashed.called
     /\ hashed.value.kind \in {"slice", "array"}
     /\ hashed.value.elems = <<>>)
        => hashed.digest = Hash(NilValue)

\* C14: on a collections.Set, once every item that was added has been
\* removed since, the root is no-node: IsEmpty() is true and Size() is 0.
C14_EmptyAfterRemovals ==
    (~panicked /\ ops > 0 /\ members = {}) => (IsEmpty /\ Size = 0)

\* C15: for one Builder, no seed is handed to the factory twice, and the
\* seeds set has every seed that was handed out, so that the seed is not
\* taken when it is drawn again.
C15_SeedsUnique ==
    /\ \A i, j \in 1 .. Len(issued) : issued[i] = issued[j] => i = j
    /\ ~panicked =>
           \A i \in 1 .. Len(issued) : SetHas(heap, root, issued[i]).found

\* the hashes of the entries of ToSlice on node id, in the order of ToSlice
RECURSIVE FlattenHashes(_, _)
FlattenHashes(h, id) ==
    IF id = Nil THEN <<>>
    ELSE IF h[id].kind = "branch"
    THEN LET RECURSIVE Concat(_)
             Concat(i) ==
                 IF i > Len(h[id].children) THEN <<>>
                 ELSE FlattenHashes(h, h[id].children[i]) \o Concat(i + 1)
         IN  Concat(1)
    ELSE [i \in 1 .. Len(NodeToSlice(h, id)) |-> h[id].hash]

\* the 6-bit chunk of hash at a level, as a number
Chunk(hash, level) == CHOOSE b \in Position(hash, level) : TRUE

\* x comes before y in the order of bit positions, level by level from 0
TrieBefore(x, y) ==
    \E d \in 0 .. maxOffset :
        /\ Chunk(x, d) < Chunk(y, d)
        /\ \A e \in 0 .. d - 1 : Chunk(x, e) = Chunk(y, e)

\* C26: ToSlice of a branch built by Set calls lists the entries in ascending
\* order of the bit positions of their hashes, level by level, so the order
\* is fixed by the stored hashes and not by the order of the Set calls.
C26_FlattenByBitPosition ==
    ~panicked =>
        \A i, j \in 1 .. Len(FlattenHashes(heap, root)) :
            i < j => TrieBefore(FlattenHashes(heap, root)[i],
                                FlattenHashes(heap, root)[j])

\* C28: on every root reachable from a single leaf by Set and Remove calls at
\* offset 0 and for every hash, Remove(hash, 0) reports removed = true exactly
\* when Get(hash, 0) reports found = true.
C28_RemoveIffGet ==
    root # Nil =>
        \A hash \in Hashes :
            /\ NodeRemove(heap, root, hash, 0).panic = Get(root, hash).panic
            /\ NodeRemove(heap, root, hash, 0).removed = Get(root, hash).found

C28_Witness ==
    /\ IsBranch(root)
    /\ \E i \in 1 .. Len(heap[root].children) : IsBranch(heap[root].children[i])
    /\ \E hash \in Hashes :
           Get(root, hash).found /\ NodeRemove(heap, root, hash, 0).removed
    /\ \E hash \in Hashes :
           /\ Has(heap[root].bitmap, Position(hash, 0))
           /\ ~Get(root, hash).found
           /\ ~NodeRemove(heap, root, hash, 0).removed

\* C29: no root reachable by Set and Remove calls holds a branch without a
\* child.
C29_NoEmptyBranch ==
    \A id \in NodesOf(heap, root) :
        heap[id].kind = "branch" => Len(heap[id].children) > 0

C29_Witness ==
    /\ LastRemove
    /\ last.removed
    /\ IsBranch(last.prev)
    /\ \E i \in 1 .. Len(heap[last.prev].children) :
           /\ IsBranch(heap[last.prev].children[i])
           /\ Len(heap[heap[last.prev].children[i]].children) = 1
           /\ heap[last.prev].children[i] \notin NodesOf(heap, root)

\* the collision node the last call was made on, as it was before the call
Receiver == snap.heap[last.prev]

\* the last call was made on a collision node
OnCollision(op) ==
    /\ last.op = op
    /\ last.prev # Nil
    /\ Receiver.kind = "collision"

\* C21: CollisionNode.Set with the node's own hash returns a new
\* CollisionNode whose entries are the receiver's entries in their order
\* followed by the new entry, and leaves the receiver's entry list as it was.
C21_CollisionSetAppends ==
    (OnCollision("set") /\ last.hash = Receiver.hash) =>
        /\ ~panicked
        /\ root # last.prev
        /\ heap[root] = CollisionNode(last.hash,
                             Receiver.entries \o <<Entry(last.key, last.value)>>)
        /\ heap[last.prev] = Receiver

C21_Witness ==
    /\ OnCollision("set")
    /\ last.hash = Receiver.hash
    /\ Len(Receiver.entries) >= 2
    /\ Receiver.entries[1] # Receiver.entries[2]
    /\ Receiver.entries[1] # Entry(last.key, last.value)
    /\ Len(heap[root].entries) = Len(Receiver.entries) + 1

\* C22: CollisionNode.Remove with a matching hash drops the first entry and
\* reports true: a CollisionNode of the remaining entries in order for three
\* or more entries, a Leaf of the second entry for two, no-node for one; with
\* another hash it returns the same node and false.
C22_CollisionRemove ==
    (OnCollision("remove") /\ ~panicked) =>
        IF last.hash # Receiver.hash
        THEN root = last.prev /\ ~last.removed /\ heap[root] = Receiver
        ELSE /\ last.removed
             /\ Len(Receiver.entries) = 1 => root = Nil
             /\ Len(Receiver.entries) = 2 =>
                    /\ root # Nil
                    /\ heap[root] = LeafNode(Receiver.hash,
                                         Receiver.entries[2].Key,
                                         Receiver.entries[2].Value)
             /\ Len(Receiver.entries) >= 3 =>
                    /\ root # Nil
                    /\ root # last.prev
                    /\ heap[root] = CollisionNode(Receiver.hash,
                                         Tail(Receiver.entries))

C22_Witness ==
    /\ OnCollision("remove")
    /\ ~panicked
    /\ last.hash = Receiver.hash
    /\ Len(Receiver.entries) >= 3
    /\ Receiver.entries[1] # Receiver.entries[Len(Receiver.entries)]
    /\ last.removed
    /\ heap[root].kind = "collision"

\* C23: CollisionNode.Set with a hash other than the node's hash returns a
\* fresh Leaf of the new key, value and hash; no entry of the collision node
\* is part of the result.
C23_CollisionSetOtherHash ==
    (OnCollision("set") /\ last.hash # Receiver.hash) =>
        /\ ~panicked
        /\ root # last.prev
        /\ heap[root] = LeafNode(last.hash, last.key, last.value)
        /\ ToSlice(root) = <<Entry(last.key, last.value)>>

C23_Witness ==
    /\ OnCollision("set")
    /\ last.hash # Receiver.hash
    /\ Len(Receiver.entries) >= 2
    /\ \A i \in 1 .. Len(Receiver.entries) :
           Receiver.entries[i] # Entry(last.key, last.value)
    /\ heap[root].kind = "leaf"

\* C30: CollisionNode.Remove with a matching hash never fails, whatever the
\* length of the entry list, the empty list included.
C30_CollisionRemoveNeverFails ==
    (OnCollision("remove") /\ last.hash = Receiver.hash) => ~panicked

\* the call of fn has returned or panicked
Applied(fn) == applied.fn = fn /\ applied.times = 1

\* the bit p of the one-hot mask 1 << p
BitIndex(mask) == CHOOSE p \in mask : TRUE

\* C24: for every bitmap and every one-hot mask m = 1 << p, Index(m) returns
\* the number of bits of the bitmap set at positions below p, and true;
\* Index(0) returns ok = false.
C24_IndexCountsBelow ==
    Applied("Index") =>
        IF applied.arg = {} THEN ~applied.ok
        ELSE /\ applied.ok
             /\ applied.count
                    = Cardinality({b \in applied.word : b < BitIndex(applied.arg)})

C24_Witness ==
    /\ Applied("Index")
    /\ applied.arg = {32}
    /\ {31, 32, 63} \subseteq applied.word
    /\ applied.count >= 2
    /\ applied.count < Cardinality(applied.word) - 1

\* bit i of the 6-bit chunk of hash at a level, as its value
ChunkBit(hash, level, i) ==
    IF (shiftWidth * level + i) \in hash THEN 2 ^ i ELSE 0

\* (hash >> (6 * level)) & 63
ChunkValue(hash, level) ==
    ChunkBit(hash, level, 0) + ChunkBit(hash, level, 1)
        + ChunkBit(hash, level, 2) + ChunkBit(hash, level, 3)
        + ChunkBit(hash, level, 4) + ChunkBit(hash, level, 5)

\* C25: Position(hash, offset) returns the one-hot mask
\* 1 << ((hash >> (6 * offset)) & 63) for every offset in 0..10 and panics for
\* every offset below 0 or above 10.
C25_PositionMaskOrPanic ==
    Applied("Position") =>
        IF applied.offset \in 0 .. 10
        THEN /\ ~applied.panic
             /\ applied.result = {ChunkValue(applied.word, applied.offset)}
        ELSE applied.panic

C25_Witness ==
    /\ Applied("Position")
    /\ applied.offset = 10
    /\ 63 \in applied.word
    /\ 60 \notin applied.word
    /\ ~applied.panic
    /\ \E p \in 8 .. 15 : applied.result = {p}

\* C27: Scramble is its own inverse, Scramble(Scramble(x)) = x, and so maps
\* different inputs to different results, because salt * invertedSalt is 1
\* modulo 2^32 and invert is an involution.
C27_ScrambleInvolution ==
    applied.fn = "Scramble" =>
        /\ applied.times % 2 = 0 => applied.result = applied.word
        /\ applied.times % 2 = 1 =>
               \A other \in ScrambleInputs :
                   Scramble(other) = applied.result => other = applied.word
        /\ asUint32(Multiply(salt, invertedSalt)) = Word(0, 1)
        /\ invert(invert(applied.word)) = applied.word

C27_Witness ==
    /\ applied.fn = "Scramble"
    /\ applied.times = 2
    /\ applied.word = Word(0, 1)
    /\ Scramble(applied.word) = Word(12052, 45544)
    /\ invert(applied.word) = Word(32768, 0)
    /\ applied.result = applied.word

====
